---- MODULE Spec2Model ----
(***************************************************************************)
(* A model of pyolxbrazil.OLXBrazil (src/pyolxbrazil/pyolxbrazil.py).      *)
(*                                                                         *)
(* One object is constructed and one of its methods is called:             *)
(*   extract            the page-by-page search loop,                      *)
(*   unique_extract     the detail-page extractor,                         *)
(*   number_of_pages    the page counter, called on one document,          *)
(*   cards              the body of the card loop, run on one container.   *)
(* The documents the fetch returns are chosen nondeterministically.        *)
(* Python values are tagged records; strings the code takes apart are      *)
(* sequences of characters or of words.                                    *)
(***************************************************************************)
EXTENDS Integers, Sequences, FiniteSets, TLC

VARIABLES
    call,            \* the method that was called
    pc,              \* "run" while the call is executing, then "done" or "raised"
    ret,             \* Returned(x) once the call returned x (None before, or if it raised)
    exc,             \* the exception that escaped the call ("" if none)
    self_state,      \* self._state
    all_pages,       \* extract: argument all_pages
    limit,           \* extract: argument limit
    page,            \* extract: local page
    total_of_pages,  \* extract: local total_of_pages
    max_pages,       \* extract: local max_pages
    products_list,   \* extract: local products_list
    soup,            \* the document being processed (None before any fetch)
    fetched,         \* history: the requests issued to requests.get, in order
    docs,            \* history: the documents those requests returned, in order
    signals,         \* history: what extract printed, in order
    url,             \* unique_extract: argument url
    complete         \* unique_extract: argument complete

vars == <<call, pc, ret, exc, self_state, all_pages, limit, page, total_of_pages,
          max_pages, products_list, soup, fetched, docs, signals, url, complete>>

(***************************************************************************)
(* Bounds of the model.                                                    *)
(***************************************************************************)
\* the largest |totalOfAds| a data block carries when number_of_pages is called alone
MaxAds == 120
\* the largest page count a data block of a search page announces
MaxPages == 3
\* the largest limit argument
MaxLimit == 3
\* the longest link target, in characters
MaxLinkLen == 3
\* the most words in the date part of a card
MaxDateWords == 3
\* the most cards in a container when the card loop is run alone
MaxCards == 2

(***************************************************************************)
(* Python values.                                                          *)
(***************************************************************************)
None == [t |-> "None", v |-> 0]
PyInt(n) == [t |-> "int", v |-> n]
\* a non-numeric string value; n is its length
PyStr(n) == [t |-> "str", v |-> n]
\* float('nan') and float('inf'), which json.loads produces from NaN and Infinity
PyNaN == [t |-> "nan", v |-> 0]
PyInf == [t |-> "inf", v |-> 0]

\* bool(x) for the values above
Truthy(x) ==
    CASE x.t = "None" -> FALSE
      [] x.t = "int"  -> x.v # 0
      [] x.t = "str"  -> x.v # 0
      [] OTHER        -> TRUE

\* isinstance(x, int)
IsInt(x) == x.t = "int"

Return(x) == [kind |-> "return", val |-> x]
\* the value a finished call handed back, as the variable ret holds it
Returned(x) == [val |-> x]
Raise(e)  == [kind |-> "raise", val |-> e]

Min(a, b) == IF a <= b THEN a ELSE b

(***************************************************************************)
(* The data block of a search page and __number_of_pages.                  *)
(***************************************************************************)
PageSize == 50

\* math.ceil(a / b) for an integer a and b > 0
Ceil(a, b) == -((-a) \div b)

\* script:  "absent"   no <script id="datalayer">
\*          "nostring" the tag has no single string child (script_tag.string is None)
\*          "nomatch"  the text holds no dataLayer.push(...)
\*          "badjson"  the pushed text is not JSON
\*          "ok"       the pushed text is JSON, followed by comma commas
\* shape:   "list"     the JSON is not an object
\*          "nopage"   an object without "page"
\*          "pagenull" "page" is not an object
\*          "nototal"  "page" is an object without "totalOfAds"
\*          "total"    "page" carries "totalOfAds" = total
\* comma:   the number of commas that end the pushed text
NoBlock == [script |-> "absent", comma |-> 0, shape |-> "list", total |-> None]

BlockOf(scr, c, sh, tot) == [script |-> scr, comma |-> c, shape |-> sh, total |-> tot]

TotalBlock(tot) == BlockOf("ok", 0, "total", tot)

\* lines 93-95: the commas left after json_str = json_str[:-1] if it ends with one
StripComma(block) == IF block.comma > 0 THEN block.comma - 1 ELSE 0

\* json.loads(json_str) succeeds
JsonLoads(block) == block.script = "ok" /\ StripComma(block) = 0

\* data.get('page', {}).get('totalOfAds'), or the exception the chain raises
GetTotalOfAds(block) ==
    CASE block.shape = "list"     -> Raise("AttributeError")
      [] block.shape = "nopage"   -> Return(None)
      [] block.shape = "pagenull" -> Raise("AttributeError")
      [] block.shape = "nototal"  -> Return(None)
      [] OTHER                    -> Return(block.total)

\* math.ceil(total_ads / 50)
CeilDiv(total_ads) ==
    CASE total_ads.t = "int" -> Return(PyInt(Ceil(total_ads.v, PageSize)))
      [] total_ads.t = "nan" -> Raise("ValueError")
      [] total_ads.t = "inf" -> Raise("OverflowError")
      [] OTHER               -> Raise("TypeError")

Caught == {"JSONDecodeError", "AttributeError", "KeyError", "TypeError"}

\* the body of the try block
NumberOfPagesTry(block) ==
    IF block.script = "absent" THEN Return(None)
    ELSE IF block.script = "nostring" THEN Raise("TypeError")
    ELSE IF block.script = "nomatch" THEN Return(None)
    ELSE IF ~JsonLoads(block) THEN Raise("JSONDecodeError")
    ELSE LET got == GetTotalOfAds(block) IN
         IF got.kind = "raise" THEN got
         ELSE IF Truthy(got.val) THEN CeilDiv(got.val)
         ELSE Return(None)

number_of_pages(block) ==
    LET r == NumberOfPagesTry(block) IN
    IF r.kind = "raise" /\ r.val \in Caught THEN Return(None) ELSE r

(***************************************************************************)
(* Text.  A link target is a sequence of characters.  Any other text is a  *)
(* sequence of words separated by single blanks; a word is a chunk of      *)
(* characters other than blank, comma and pipe, optionally followed by a   *)
(* comma.                                                                  *)
(***************************************************************************)
Word(a, c) == [a |-> a, comma |-> c]

\* s.split(d) for a sequence of characters: never empty
RECURSIVE SplitOn(_, _)
SplitOn(s, d) ==
    LET at == {i \in 1..Len(s) : s[i] = d} IN
    IF at = {} THEN <<s>>
    ELSE LET i == CHOOSE j \in at : \A k \in at : j <= k IN
         <<SubSeq(s, 1, i - 1)>> \o SplitOn(SubSeq(s, i + 1, Len(s)), d)

\* text.split(',') with each piece stripped: the words up to each comma, commas dropped
RECURSIVE SplitComma(_)
SplitComma(text) ==
    LET at == {i \in 1..Len(text) : text[i].comma} IN
    IF at = {} THEN <<text>>
    ELSE LET i == CHOOSE j \in at : \A k \in at : j <= k IN
         <<Append(SubSeq(text, 1, i - 1), Word(text[i].a, FALSE))>>
             \o SplitComma(SubSeq(text, i + 1, Len(text)))

\* str.lower() and str.upper() on the chunks the model uses
Lower(a) ==
    CASE a = "Hoje" -> "hoje"
      [] a = "Jun"  -> "jun"
      [] a = "RJ"   -> "rj"
      [] a = "XX"   -> "xx"
      [] OTHER      -> a

Upper(a) ==
    CASE a = "rj" -> "RJ"
      [] a = "xx" -> "XX"
      [] OTHER    -> a

\* text.replace(',', '').lower().split(): the chunks, lowered
LowerWords(text) == [i \in 1..Len(text) |-> Lower(text[i].a)]

\* sub in text.lower(), for a chunk sub
ContainsLower(text, sub) == \E i \in 1..Len(text) : Lower(text[i].a) = sub

(***************************************************************************)
(* The lookup tables.                                                      *)
(***************************************************************************)
months ==
    [m \in {"jan", "fev", "mar", "abr", "mai", "jun", "jul", "ago", "set", "out",
            "nov", "dez"} |->
        CASE m = "jan" -> "01" [] m = "fev" -> "02" [] m = "mar" -> "03"
          [] m = "abr" -> "04" [] m = "mai" -> "05" [] m = "jun" -> "06"
          [] m = "jul" -> "07" [] m = "ago" -> "08" [] m = "set" -> "09"
          [] m = "out" -> "10" [] m = "nov" -> "11" [] OTHER -> "12"]

\* months.get(key, default)
MonthsGet(key, default) == IF key \in DOMAIN months THEN months[key] ELSE default

state_map ==
    [c \in {"ac", "al", "ap", "am", "ba", "ce", "df", "es", "go", "ma", "mt", "ms",
            "mg", "pa", "pb", "pr", "pe", "pi", "rj", "rn", "rs", "ro", "rr", "sc",
            "sp", "se", "to"} |->
        CASE c = "ac" -> "Acre" [] c = "al" -> "Alagoas" [] c = "ap" -> "Amapa"
          [] c = "am" -> "Amazonas" [] c = "ba" -> "Bahia" [] c = "ce" -> "Ceara"
          [] c = "df" -> "Distrito Federal" [] c = "es" -> "Espirito Santo"
          [] c = "go" -> "Goias" [] c = "ma" -> "Maranhao" [] c = "mt" -> "Mato Grosso"
          [] c = "ms" -> "Mato Grosso do Sul" [] c = "mg" -> "Minas Gerais"
          [] c = "pa" -> "Para" [] c = "pb" -> "Paraiba" [] c = "pr" -> "Parana"
          [] c = "pe" -> "Pernambuco" [] c = "pi" -> "Piaui"
          [] c = "rj" -> "Rio de Janeiro" [] c = "rn" -> "Rio Grande do Norte"
          [] c = "rs" -> "Rio Grande do Sul" [] c = "ro" -> "Rondonia"
          [] c = "rr" -> "Roraima" [] c = "sc" -> "Santa Catarina"
          [] c = "sp" -> "Sao Paulo" [] c = "se" -> "Sergipe" [] OTHER -> "Tocantins"]

\* state_map.get(self._state.lower(), self._state.upper())
StateName(st) ==
    IF Lower(st) \in DOMAIN state_map THEN state_map[Lower(st)] ELSE Upper(st)

(***************************************************************************)
(* One ad card and the body of the card loop.                              *)
(*   link     tag: an <a class="olx-adcard__link"> exists; has_href, href  *)
(*   title    tag: an <h2 class="olx-adcard__title"> exists; text          *)
(*   img      tag: an <img> exists; has_src, src                           *)
(*   price    tag: an <h3 class="olx-adcard__price"> exists; text          *)
(*   locdate  tag: the location-date <p> exists; parts: its text, cut at   *)
(*            the pipes, each part stripped                                *)
(***************************************************************************)
\* product_link.split('-')[-1], with the except IndexError branch
CardID(product_link) ==
    LET segs == SplitOn(product_link, "-") IN
    IF Len(segs) = 0 THEN <<"-">> ELSE segs[Len(segs)]

\* title_tag.text.strip() if title_tag else 'N/A'
CardName(title) ==
    IF title.tag
    THEN LET keep == {i \in 1..Len(title.text) : title.text[i] # " "} IN
         IF keep = {} THEN <<>>
         ELSE SubSeq(title.text,
                     CHOOSE i \in keep : \A k \in keep : i <= k,
                     CHOOSE i \in keep : \A k \in keep : i >= k)
    ELSE <<"N/A">>

\* img_tag['src'] if img_tag and img_tag.has_attr('src') else '-'
CardImage(img) == IF img.tag /\ img.has_src THEN img.src ELSE "-"

Digits == {"0", "1", "2", "3", "4", "5", "6", "7", "8", "9"}

\* re.sub(r'[^\d,]', '', price_str).replace(',', '.')
CleanPrice(price_str) ==
    LET kept == SelectSeq(price_str, LAMBDA ch : ch \in Digits \/ ch = ",") IN
    [i \in 1..Len(kept) |-> IF kept[i] = "," THEN "." ELSE kept[i]]

CardPrice(price) ==
    IF price.tag /\ price.text # <<>> THEN CleanPrice(price.text) ELSE <<"-">>

\* date_part.split(',')[-1].strip()
TimeStr(date_part) ==
    LET segs == SplitComma(date_part) IN segs[Len(segs)]

\* the date branch of the card loop; the result is the formatted string, kept as
\* its pieces, or the raw text
CardDatetime(date_part) ==
    IF ContainsLower(date_part, "hoje")
    THEN [kind |-> "today", time |-> TimeStr(date_part)]
    ELSE IF ContainsLower(date_part, "ontem")
    THEN [kind |-> "yesterday", time |-> TimeStr(date_part)]
    ELSE LET d_comp == LowerWords(date_part) IN
         IF Len(d_comp) < 3
         THEN [kind |-> "raw", text |-> date_part]
         ELSE [kind |-> "parsed", day |-> d_comp[1],
               month |-> MonthsGet(d_comp[2], "??"), time |-> d_comp[3]]

\* loc_date_tag.text of a text cut into parts: the parts with the pipes between them
\* (the blanks around a pipe, which the fallback keeps, are not part of the text model)
RECURSIVE JoinPipes(_)
JoinPipes(parts) ==
    IF Len(parts) = 0 THEN <<>>
    ELSE IF Len(parts) = 1 THEN parts[1]
    ELSE parts[1] \o <<Word("|", FALSE)>> \o JoinPipes(Tail(parts))

\* the location and date fields of the record
CardLocDate(locdate) ==
    IF locdate.tag /\ locdate.parts # <<>>
    THEN IF Len(locdate.parts) = 2
         THEN LET loc_details == SplitComma(locdate.parts[1]) IN
              [City |-> loc_details[1],
               Neighborhood |-> IF Len(loc_details) > 1 THEN loc_details[2] ELSE <<>>,
               Datetime |-> CardDatetime(locdate.parts[2])]
         ELSE [City |-> JoinPipes(locdate.parts), Neighborhood |-> <<>>,
               Datetime |-> [kind |-> "empty"]]
    ELSE [City |-> <<>>, Neighborhood |-> <<>>, Datetime |-> [kind |-> "dash"]]

\* a bug: a card without a title is skipped too
SkipCard_NeedsTitle(card) == ~card.link.tag \/ ~card.link.has_href \/ ~card.title.tag

\* not link_tag or not link_tag.has_attr('href')
SkipCard(card) == ~card.link.tag \/ ~card.link.has_href

\* product_dict for a card that is not skipped
ProductDict(card, st) ==
    LET ld == CardLocDate(card.locdate) IN
    [Link |-> card.link.href,
     ID |-> CardID(card.link.href),
     Name |-> CardName(card.title),
     Image |-> CardImage(card.img),
     Price |-> CardPrice(card.price),
     City |-> ld.City,
     Neighborhood |-> ld.Neighborhood,
     Datetime |-> ld.Datetime,
     State |-> StateName(st)]

\* the for loop over the cards of a container: products_list after it
RECURSIVE CardLoop(_, _, _)
CardLoop(products, cards, st) ==
    IF cards = <<>> THEN products
    ELSE CardLoop(IF SkipCard(Head(cards)) THEN products
                  ELSE Append(products, ProductDict(Head(cards), st)),
                  Tail(cards), st)

(***************************************************************************)
(* The search loop of extract: one iteration is one step.                  *)
(***************************************************************************)
\* lines 205-208: total_of_pages after the first page
NewTotal(ap, lim, mp, total) ==
    IF ap /\ Truthy(mp) THEN mp.v
    ELSE IF IsInt(lim) THEN (IF Truthy(mp) THEN Min(lim.v, mp.v) ELSE lim.v)
    ELSE total

\* a bug: the page count is taken again from every page
PageOne_EveryPage(p, doc, ap, lim, mp, total) ==
    LET counted == number_of_pages(doc.datalayer) IN
    IF counted.kind = "raise" THEN counted
    ELSE Return([max_pages |-> counted.val,
                 total_of_pages |-> NewTotal(ap, lim, counted.val, total)])

\* lines 203-208: max_pages and total_of_pages after the fetch of page p, or the
\* exception number_of_pages lets through
PageOne(p, doc, ap, lim, mp, total) ==
    IF p = 1
    THEN LET counted == number_of_pages(doc.datalayer) IN
         IF counted.kind = "raise" THEN counted
         ELSE Return([max_pages |-> counted.val,
                      total_of_pages |-> NewTotal(ap, lim, counted.val, total)])
    ELSE Return([max_pages |-> mp, total_of_pages |-> total])

\* lines 211-212: ad_list_container is found
HasContainer(doc) == doc.main /\ doc.container

\* lines 215-218: what is printed when the container is missing
MissingSignal(doc) == IF doc.noads THEN "info" ELSE "warning"

\* products_list.append(product_dict), by way of the card loop
AddProducts(products, doc, st) == CardLoop(products, doc.cards, st)

\* a bug: a page is skipped
NextPage_Skip(p) == p + 2

\* page += 1
NextPage(p) == p + 1

(***************************************************************************)
(* unique_extract.                                                         *)
(***************************************************************************)
\* a bug: any url that is not empty is accepted
UrlAccepted_NonEmpty(u) == u # <<>>

\* 'olx.com' in url, for a url made of chunks none of which holds part of the host
UrlAccepted(u) == \E i \in 1..Len(u) : u[i] = "olx.com"

InvalidUrlError == [error |-> "Invalid URL provided."]
NoInitialDataError ==
    [error |-> "Could not find initial-data script. Page structure may have changed."]

PriceChars == Digits \cup {".", ","}

\* re.findall(r'R\$ ([\d.,]+)', s): the first group found, or <<>> when there is none
FirstPrice(s) ==
    LET at == {i \in 1..Len(s) : /\ i + 3 <= Len(s)
                                  /\ s[i] = "R" /\ s[i + 1] = "$" /\ s[i + 2] = " "
                                  /\ s[i + 3] \in PriceChars} IN
    IF at = {} THEN <<>>
    ELSE LET i == CHOOSE j \in at : \A k \in at : j <= k
             ends == {e \in (i + 3)..Len(s) : \A k \in (i + 3)..e : s[k] \in PriceChars}
             e == CHOOSE m \in ends : \A k \in ends : m >= k
         IN <<SubSeq(s, i + 3, e)>>

\* .replace('.', '').replace(',', '.')
DecimalPrice(g) ==
    LET kept == SelectSeq(g, LAMBDA ch : ch # ".") IN
    [i \in 1..Len(kept) |-> IF kept[i] = "," THEN "." ELSE kept[i]]

\* line 165: the Price entry, or the exception
\* priceValue: kind "missing" (no key), "null", or "str" with its text
DetailPrice(priceValue) ==
    IF priceValue.kind = "null" THEN Raise("TypeError")
    ELSE LET s == IF priceValue.kind = "missing" THEN <<>> ELSE priceValue.text
             found == FirstPrice(s) IN
         IF found = <<>> THEN Raise("IndexError")
         ELSE Return(DecimalPrice(found[1]))

\* line 163-164: the Image entry: "unset" when the key is not written
\* images: "missing", "null", "empty" ([]), "nooriginal" ([{}]), "present"
DetailImage(images) ==
    CASE images = "present"    -> Return("original.jpg")
      [] images = "nooriginal" -> Raise("KeyError")
      [] OTHER                 -> Return("unset")

\* general_info.get(key, {}).get(sub), for user and phone
\* "missing": no key; "null": the key holds null; "nosub": a dict without sub;
\* "present": a dict with sub
GetGet(field) ==
    CASE field = "missing" -> Return("None")
      [] field = "null"    -> Raise("AttributeError")
      [] field = "nosub"   -> Return("None")
      [] OTHER             -> Return("value")

\* general_info.get(key) for the keys read with a plain get
PlainKeys == {"subject", "listId", "description", "listTime", "parentCategoryName",
              "categoryName", "location"}
PlainGet(ad, key) == IF key \in ad.plain THEN "value" ELSE "None"

\* lines 161-174: product_dict_unique, or the first exception on the way
Project(ad) ==
    LET img == DetailImage(ad.images)
        prc == DetailPrice(ad.priceValue)
        usr == GetGet(ad.user)
        phn == GetGet(ad.phone) IN
    IF img.kind = "raise" THEN img
    ELSE IF prc.kind = "raise" THEN prc
    ELSE IF usr.kind = "raise" THEN usr
    ELSE IF phn.kind = "raise" THEN phn
    ELSE Return([Name |-> PlainGet(ad, "subject"),
                 ID |-> PlainGet(ad, "listId"),
                 Image |-> img.val,
                 Price |-> prc.val,
                 Description |-> PlainGet(ad, "description"),
                 Datetime |-> PlainGet(ad, "listTime"),
                 Author |-> usr.val,
                 Phone |-> phn.val,
                 Type |-> PlainGet(ad, "parentCategoryName"),
                 Category |-> PlainGet(ad, "categoryName"),
                 Location |-> PlainGet(ad, "location")])

\* lines 150-174: what unique_extract does with the fetched document
\* initial: "absent"   no <script id="initial-data">
\*          "noattr"   the tag has no data-json attribute
\*          "badjson"  data-json is not JSON
\*          "noad"     the JSON object has no "ad"
\*          "adnull"   "ad" is null
\*          "ad"       "ad" is the object doc.ad
UniqueBody(doc, cmpl) ==
    CASE doc.initial = "absent"  -> Return(NoInitialDataError)
      [] doc.initial = "noattr"  -> Raise("KeyError")
      [] doc.initial = "badjson" -> Raise("JSONDecodeError")
      [] doc.initial = "noad"    -> Raise("KeyError")
      [] doc.initial = "adnull"  -> IF cmpl THEN Return(None) ELSE Raise("AttributeError")
      [] OTHER                   -> IF cmpl THEN Return(doc.ad) ELSE Project(doc.ad)

(***************************************************************************)
(* The inputs: the arguments and the documents the site may return.        *)
(***************************************************************************)
Seqs(S, n) == UNION {[1..k -> S] : k \in 0..n}

Limits == {None} \cup {PyInt(n) : n \in -1..MaxLimit}

\* data blocks for a call of number_of_pages alone
TotalValues == {None, PyStr(0), PyStr(3), PyNaN, PyInf} \cup {PyInt(n) : n \in -MaxAds..MaxAds}

DataBlocks ==
    {NoBlock, BlockOf("nostring", 0, "list", None), BlockOf("nomatch", 0, "list", None),
     BlockOf("badjson", 0, "list", None)}
    \cup {BlockOf("ok", c, sh, None) :
            c \in {0, 1, 2}, sh \in {"list", "nopage", "pagenull", "nototal"}}
    \cup {BlockOf("ok", c, "total", t) : c \in {0, 1}, t \in TotalValues}

\* data blocks of the first page of a search
FirstPageBlocks ==
    {NoBlock, BlockOf("badjson", 0, "list", None), TotalBlock(PyNaN)}
    \cup {TotalBlock(PyInt(n)) : n \in {-PageSize - 1, -1, 0}}
    \cup {TotalBlock(PyInt(PageSize * (k - 1) + 1)) : k \in 1..MaxPages}

\* data blocks of the later pages
LaterPageBlocks == {NoBlock, TotalBlock(PyInt(1))}

NoLinkTag == [tag |-> FALSE, has_href |-> FALSE, href |-> <<>>]
NoHref    == [tag |-> TRUE, has_href |-> FALSE, href |-> <<>>]
LinkTag(h) == [tag |-> TRUE, has_href |-> TRUE, href |-> h]

NoTag   == [tag |-> FALSE, text |-> <<>>]
Text(t) == [tag |-> TRUE, text |-> t]

NoImg  == [tag |-> FALSE, has_src |-> FALSE, src |-> ""]
NoSrc  == [tag |-> TRUE, has_src |-> FALSE, src |-> ""]
ImgSrc == [tag |-> TRUE, has_src |-> TRUE, src |-> "img.jpg"]

NoLocDate    == [tag |-> FALSE, parts |-> <<>>]
LocDate(ps)  == [tag |-> TRUE, parts |-> ps]

PriceText == <<"R", "$", " ", "1", ".", "5", "0", "0", ",", "0", "0">>
LocText   == <<Word("Rio", TRUE), Word("Centro", FALSE)>>
DateText  == <<Word("25", FALSE), Word("jun", TRUE), Word("15:20", FALSE)>>

CardOf(l, t, i, p, ld) == [link |-> l, title |-> t, img |-> i, price |-> p, locdate |-> ld]

\* a complete card with link target h and date text d
FullCard(h, d) ==
    CardOf(LinkTag(h), Text(<<" ", "b", " ">>), ImgSrc, Text(PriceText),
           LocDate(<<LocText, d>>))

CardA      == FullCard(<<"a", "-", "7">>, DateText)
CardB      == FullCard(<<"7">>, <<Word("Hoje", TRUE), Word("14:30", FALSE)>>)
CardNoLink == CardOf(NoLinkTag, Text(<<"b">>), ImgSrc, Text(PriceText),
                     LocDate(<<LocText, DateText>>))
CardNoHref == CardOf(NoHref, NoTag, NoImg, NoTag, NoLocDate)

LinkChars == {"a", "7", "-"}
Hrefs     == Seqs(LinkChars, MaxLinkLen)

DateAtoms == {"25", "jun", "Jun", "xyz", "15:20", "Hoje", "ontem"}
DateWords == {Word(a, c) : a \in DateAtoms, c \in BOOLEAN}
DateTexts == Seqs(DateWords, MaxDateWords)

\* cards that differ in one field, and cards with every mix of missing fields
LinkCards == {FullCard(h, DateText) : h \in Hrefs}
DateCards == {FullCard(<<"a", "-", "7">>, d) : d \in DateTexts}
FieldCards ==
    {CardOf(l, t, i, p, ld) :
        l \in {NoLinkTag, NoHref, LinkTag(<<"a", "-", "7">>)},
        t \in {NoTag, Text(<<>>), Text(<<" ">>), Text(<<"b">>), Text(<<" ", "b">>)},
        i \in {NoImg, NoSrc, ImgSrc},
        p \in {NoTag, Text(<<>>), Text(PriceText), Text(<<"G", "r", "a", "t", "i", "s">>)},
        ld \in {NoLocDate, LocDate(<<>>), LocDate(<<LocText>>), LocDate(<< <<>> >>),
                LocDate(<<LocText, DateText>>), LocDate(<< <<>>, <<>> >>),
                LocDate(<<LocText, DateText, DateText>>)}}

\* the containers the card loop is run on alone
CardLists ==
    Seqs({CardNoLink, CardNoHref, CardA, CardB}, MaxCards)
    \cup {<<c>> : c \in LinkCards \cup DateCards \cup FieldCards}

\* a search page
PageOf(b, m, c, n, cs) ==
    [datalayer |-> b, main |-> m, container |-> c, noads |-> n, cards |-> cs]

\* the card lists of the pages of a search
PageCardLists ==
    {<<>>, <<CardNoLink>>, <<CardA>>, <<CardA, CardB>>, <<CardB, CardNoHref, CardA>>}

\* the pages the site may return for page p
SearchPages(p) ==
    LET blocks == IF p = 1 THEN FirstPageBlocks ELSE LaterPageBlocks IN
    {PageOf(b, TRUE, TRUE, FALSE, cs) : b \in blocks, cs \in PageCardLists}
    \cup {PageOf(b, m, FALSE, n, <<>>) : b \in blocks, m \in BOOLEAN, n \in BOOLEAN}

\* the urls unique_extract is called with, in chunks
Urls == {<<"https://", "sp.", "olx.com", "/item-1">>, <<"http://x.org/?r=", "olx.com">>,
         <<"https://", "example.org", "/item-1">>, <<>>}

PriceValues ==
    {[kind |-> "missing", text |-> <<>>], [kind |-> "null", text |-> <<>>]}
    \cup {[kind |-> "str", text |-> t] :
            t \in {<<>>, PriceText, <<"1", "5", "0", "0">>, <<"R", "$", " ">>}}

Ads ==
    [priceValue : PriceValues,
     phone  : {"missing", "null", "nosub", "present"},
     images : {"missing", "null", "empty", "nooriginal", "present"},
     user   : {"missing", "null", "nosub", "present"},
     plain  : {PlainKeys, PlainKeys \ {"subject"}, {}}]

NoAd == [priceValue |-> [kind |-> "missing", text |-> <<>>], phone |-> "missing",
         images |-> "missing", user |-> "missing", plain |-> {}]

DetailOf(i, a) == [initial |-> i, ad |-> a]

\* the detail pages the site may return
DetailPages ==
    {DetailOf(i, NoAd) : i \in {"absent", "noattr", "badjson", "noad", "adnull"}}
    \cup {DetailOf("ad", a) : a \in Ads}

(***************************************************************************)
(* The state machine.                                                      *)
(***************************************************************************)
Idle(c) ==
    /\ call = c
    /\ pc = "run"
    /\ ret = None
    /\ exc = ""
    /\ page = 1
    /\ total_of_pages = 1
    /\ max_pages = None
    /\ products_list = <<>>
    /\ fetched = <<>>
    /\ docs = <<>>
    /\ signals = <<>>

InitExtract ==
    /\ Idle("extract")
    /\ self_state = "rj"
    /\ all_pages \in BOOLEAN
    /\ limit \in Limits
    /\ soup = None
    /\ url = <<>>
    /\ complete = FALSE

InitUnique ==
    /\ Idle("unique_extract")
    /\ self_state = "rj"
    /\ all_pages = FALSE
    /\ limit = None
    /\ soup = None
    /\ url \in Urls
    /\ complete \in BOOLEAN

InitCount ==
    /\ Idle("number_of_pages")
    /\ self_state = "rj"
    /\ all_pages = FALSE
    /\ limit = None
    /\ soup \in {PageOf(b, TRUE, TRUE, FALSE, <<>>) : b \in DataBlocks}
    /\ url = <<>>
    /\ complete = FALSE

InitCards ==
    /\ Idle("cards")
    /\ \/ /\ self_state \in {"rj", "RJ", "xx"}
          /\ soup \in {PageOf(NoBlock, TRUE, TRUE, FALSE, cs) :
                         cs \in Seqs({CardNoLink, CardNoHref, CardA, CardB}, MaxCards)}
       \/ /\ self_state = "rj"
          /\ soup \in {PageOf(NoBlock, TRUE, TRUE, FALSE, cs) : cs \in CardLists}
    /\ all_pages = FALSE
    /\ limit = None
    /\ url = <<>>
    /\ complete = FALSE

Init == InitExtract \/ InitUnique \/ InitCount \/ InitCards

\* while page <= total_of_pages: a page is fetched and number_of_pages raises
ExtractRaise ==
    /\ call = "extract" /\ pc = "run"
    /\ page <= total_of_pages
    /\ \E doc \in SearchPages(page) :
         LET first == PageOne(page, doc, all_pages, limit, max_pages, total_of_pages) IN
         /\ first.kind = "raise"
         /\ soup' = doc
         /\ fetched' = Append(fetched, page)
         /\ docs' = Append(docs, doc)
         /\ pc' = "raised"
         /\ exc' = first.val
    /\ UNCHANGED <<call, ret, self_state, all_pages, limit, page, total_of_pages,
                   max_pages, products_list, signals, url, complete>>

\* a page is fetched and has no container: break, then return products_list
ExtractBreak ==
    /\ call = "extract" /\ pc = "run"
    /\ page <= total_of_pages
    /\ \E doc \in SearchPages(page) :
         LET first == PageOne(page, doc, all_pages, limit, max_pages, total_of_pages) IN
         /\ first.kind = "return"
         /\ ~HasContainer(doc)
         /\ soup' = doc
         /\ fetched' = Append(fetched, page)
         /\ docs' = Append(docs, doc)
         /\ max_pages' = first.val.max_pages
         /\ total_of_pages' = first.val.total_of_pages
         /\ signals' = Append(signals, MissingSignal(doc))
         /\ pc' = "done"
         /\ ret' = Returned(products_list)
    /\ UNCHANGED <<call, exc, self_state, all_pages, limit, page, products_list, url,
                   complete>>

\* a page is fetched and its cards are added: page += 1
ExtractPage ==
    /\ call = "extract" /\ pc = "run"
    /\ page <= total_of_pages
    /\ \E doc \in SearchPages(page) :
         LET first == PageOne(page, doc, all_pages, limit, max_pages, total_of_pages) IN
         /\ first.kind = "return"
         /\ HasContainer(doc)
         /\ soup' = doc
         /\ fetched' = Append(fetched, page)
         /\ docs' = Append(docs, doc)
         /\ max_pages' = first.val.max_pages
         /\ total_of_pages' = first.val.total_of_pages
         /\ products_list' = AddProducts(products_list, doc, self_state)
         /\ page' = NextPage(page)
    /\ UNCHANGED <<call, pc, ret, exc, self_state, all_pages, limit, signals, url,
                   complete>>

\* the loop condition fails: return products_list
ExtractReturn ==
    /\ call = "extract" /\ pc = "run"
    /\ ~(page <= total_of_pages)
    /\ pc' = "done"
    /\ ret' = Returned(products_list)
    /\ UNCHANGED <<call, exc, self_state, all_pages, limit, page, total_of_pages,
                   max_pages, products_list, soup, fetched, docs, signals, url, complete>>

\* unique_extract with a url that is not accepted
UniqueInvalid ==
    /\ call = "unique_extract" /\ pc = "run"
    /\ ~UrlAccepted(url)
    /\ pc' = "done"
    /\ ret' = Returned(InvalidUrlError)
    /\ UNCHANGED <<call, exc, self_state, all_pages, limit, page, total_of_pages,
                   max_pages, products_list, soup, fetched, docs, signals, url, complete>>

\* unique_extract with an accepted url: the page is fetched and read
UniqueFetch ==
    /\ call = "unique_extract" /\ pc = "run"
    /\ UrlAccepted(url)
    /\ \E doc \in DetailPages :
         LET r == UniqueBody(doc, complete) IN
         /\ soup' = doc
         /\ fetched' = Append(fetched, url)
         /\ docs' = Append(docs, doc)
         /\ pc' = IF r.kind = "raise" THEN "raised" ELSE "done"
         /\ exc' = IF r.kind = "raise" THEN r.val ELSE ""
         /\ ret' = IF r.kind = "raise" THEN None ELSE Returned(r.val)
    /\ UNCHANGED <<call, self_state, all_pages, limit, page, total_of_pages, max_pages,
                   products_list, signals, url, complete>>

\* __number_of_pages(soup)
CountPages ==
    /\ call = "number_of_pages" /\ pc = "run"
    /\ LET r == number_of_pages(soup.datalayer) IN
         /\ pc' = IF r.kind = "raise" THEN "raised" ELSE "done"
         /\ exc' = IF r.kind = "raise" THEN r.val ELSE ""
         /\ ret' = IF r.kind = "raise" THEN None ELSE Returned(r.val)
    /\ UNCHANGED <<call, self_state, all_pages, limit, page, total_of_pages, max_pages,
                   products_list, soup, fetched, docs, signals, url, complete>>

\* the card loop on the container of soup
RunCards ==
    /\ call = "cards" /\ pc = "run"
    /\ products_list' = AddProducts(products_list, soup, self_state)
    /\ pc' = "done"
    /\ ret' = Returned(products_list')
    /\ UNCHANGED <<call, exc, self_state, all_pages, limit, page, total_of_pages,
                   max_pages, soup, fetched, docs, signals, url, complete>>

Next ==
    \/ ExtractRaise
    \/ ExtractBreak
    \/ ExtractPage
    \/ ExtractReturn
    \/ UniqueInvalid
    \/ UniqueFetch
    \/ CountPages
    \/ RunCards

Spec == Init /\ [][Next]_vars

\* the steps of a call of extract
NextExtract ==
    \/ ExtractRaise
    \/ ExtractBreak
    \/ ExtractPage
    \/ ExtractReturn

\* a call of extract that is not left unfinished: the loop is synchronous, nothing
\* but the fetch suspends it, and each fetch returns
FairSpec == InitExtract /\ [][NextExtract]_vars /\ WF_vars(NextExtract)

(***************************************************************************)
(* What the claims are stated with.                                        *)
(***************************************************************************)
Max(a, b) == IF a >= b THEN a ELSE b

Ended == pc \in {"done", "raised"}

\* what the call returned, once pc = "done"
Result == ret.val

\* the records one page yields, alone
PageRecords(doc) == CardLoop(<<>>, doc.cards, self_state)

\* the records of the first n fetched pages, in page order
RECURSIVE RecordsUpTo(_)
RecordsUpTo(n) == IF n = 0 THEN <<>> ELSE RecordsUpTo(n - 1) \o PageRecords(docs[n])

\* the link targets of the cards that carry one, in document order
RECURSIVE ValidLinks(_)
ValidLinks(cards) ==
    IF cards = <<>> THEN <<>>
    ELSE (IF Head(cards).link.tag /\ Head(cards).link.has_href
          THEN <<Head(cards).link.href>> ELSE <<>>) \o ValidLinks(Tail(cards))

\* the link targets of the first n fetched pages
RECURSIVE ValidLinksUpTo(_)
ValidLinksUpTo(n) ==
    IF n = 0 THEN <<>> ELSE ValidLinksUpTo(n - 1) \o ValidLinks(docs[n].cards)

LinksOf(products) == [i \in 1..Len(products) |-> products[i].Link]

\* C1: with all_pages and a page count N >= 1 found on page 1, and a container on
\* every fetched page, the pages fetched are 1, 2, ... in order, never more than N,
\* the list holds the records of the fetched pages in page order, and the call
\* returns that list after exactly N fetches.
C1_AllPagesFetchesEachPageInOrder ==
    (/\ call = "extract"
     /\ all_pages
     /\ Len(docs) >= 1
     /\ max_pages.t = "int" /\ max_pages.v >= 1
     /\ \A i \in 1..Len(docs) : HasContainer(docs[i]))
    => /\ fetched = [i \in 1..Len(fetched) |-> i]
       /\ Len(fetched) <= max_pages.v
       /\ products_list = RecordsUpTo(Len(docs))
       /\ LinksOf(products_list) = ValidLinksUpTo(Len(docs))
       /\ pc # "raised"
       /\ (pc = "done" => Len(fetched) = max_pages.v /\ Result = products_list)

C1_Witness ==
    /\ call = "extract" /\ pc = "done" /\ all_pages
    /\ max_pages = PyInt(3)
    /\ fetched = <<1, 2, 3>>
    /\ \A i \in 1..3 : HasContainer(docs[i])
    /\ docs[1].cards = <<CardA, CardB>>
    /\ docs[2].cards = <<CardB, CardNoHref, CardA>>
    /\ Len(Result) = 4

\* C5: the card loop emits one record per card that has a link element with a
\* target, in document order, whatever else the card lacks, and never raises;
\* in a search, the list is those records for the pages processed so far.
C5_OneRecordPerLinkedCard ==
    /\ call = "cards" =>
         /\ pc # "raised"
         /\ pc = "done" =>
              /\ LinksOf(Result) = ValidLinks(soup.cards)
              /\ (ValidLinks(soup.cards) = <<>> => Result = <<>>)
    /\ (call = "extract" /\ pc = "run") =>
         LinksOf(products_list) = ValidLinksUpTo(Len(docs))

C5_Witness ==
    /\ call = "cards" /\ pc = "done"
    /\ Len(soup.cards) = 1
    /\ ~soup.cards[1].title.tag /\ ~soup.cards[1].img.tag
    /\ ~soup.cards[1].price.tag /\ ~soup.cards[1].locdate.tag
    /\ Len(Result) = 1

\* C6: unique_extract with a url that does not hold the host returns the
\* invalid-url result and fetches nothing; with a url that holds it and a page
\* without the initial-data block it returns the structure-not-found result;
\* neither raises.
C6_DetailErrorsAreResults ==
    call = "unique_extract" =>
      LET hasHost == \E i \in 1..Len(url) : url[i] = "olx.com" IN
      /\ ~hasHost => /\ fetched = <<>> /\ docs = <<>>
                     /\ pc # "raised"
                     /\ pc = "done" => Result = InvalidUrlError
      /\ (hasHost /\ Ended /\ soup.initial = "absent") =>
            /\ pc = "done"
            /\ Result = NoInitialDataError

C6_Witness ==
    /\ call = "unique_extract" /\ pc = "done"
    /\ url = <<"https://", "example.org", "/item-1">>
    /\ Result = InvalidUrlError
    /\ fetched = <<>>

\* C10: every call of extract ends; page is one more than the number of completed
\* iterations; total_of_pages changes only in the iteration of page 1; page 1 is
\* always fetched; no page above max(1, total_of_pages) is fetched.
C10_ExtractTerminates ==
    /\ <>Ended
    /\ [](call = "extract" =>
            /\ fetched = [i \in 1..Len(fetched) |-> i]
            /\ (pc = "run" => page = Len(fetched) + 1)
            /\ (Ended => Len(fetched) >= 1)
            /\ \A i \in 1..Len(fetched) : fetched[i] <= Max(1, total_of_pages))
    /\ [][call = "extract" =>
            /\ (page' = page \/ page' = page + 1)
            /\ (total_of_pages' # total_of_pages => page = 1 /\ fetched = <<>>)]_vars

C10_Witness ==
    /\ call = "extract" /\ pc = "done"
    /\ limit = PyInt(-1)
    /\ total_of_pages = -1
    /\ fetched = <<1>>
    /\ page = 2

\* C2: once page 1 is processed, total_of_pages is max_pages if all_pages was asked
\* and max_pages is known; else min(limit, max_pages) for an integer limit and a
\* known max_pages, limit for an integer limit and an unknown max_pages; else 1.
C2_TotalPagesRule ==
    (call = "extract" /\ Len(fetched) >= 1 /\ pc # "raised") =>
      LET known == max_pages # None IN
      total_of_pages =
        IF all_pages /\ known THEN max_pages.v
        ELSE IF limit # None
             THEN (IF known THEN Min(limit.v, max_pages.v) ELSE limit.v)
        ELSE 1

\* C3: a page without the primary region or without the container ends the search
\* on that page: it is the last page fetched, nothing is raised, and the list
\* returned holds the records of the pages before it; a page with a container and
\* no record does not end the search.
C3_MissingContainerEndsSearch ==
    call = "extract" =>
      /\ \A k \in 1..Len(docs) :
           ~HasContainer(docs[k]) =>
              /\ k = Len(docs)
              /\ fetched[k] = k
              /\ pc = "done"
              /\ Result = RecordsUpTo(k - 1)
      /\ \A k \in 1..Len(docs) :
           (HasContainer(docs[k]) /\ PageRecords(docs[k]) = <<>>) =>
              /\ pc # "raised"
              /\ (k = Len(docs) /\ pc = "run") => page = k + 1
              /\ (k = Len(docs) /\ pc = "done") => page > total_of_pages

\* C4: number_of_pages returns ceil(totalOfAds / 50) exactly when the data block is
\* there, parses and carries a positive integer totalOfAds; otherwise it returns
\* None; it never raises.
C4_CountPagesRule ==
    (call = "number_of_pages" /\ Ended) =>
      LET block == soup.datalayer
          counts == /\ block.script = "ok" /\ block.comma <= 1
                    /\ block.shape = "total"
                    /\ block.total.t = "int" /\ block.total.v > 0 IN
      /\ pc = "done"
      /\ Result = IF counts
               THEN PyInt(CHOOSE n \in 0..(MaxAds + 1) :
                            PageSize * (n - 1) < block.total.v
                            /\ block.total.v <= PageSize * n)
               ELSE None

\* C7: once the initial-data block holds an ad record, a missing price string or
\* one not in the currency form, a withheld or null phone, missing images and a
\* missing user never make unique_extract raise.
C7_MissingSubfieldsNeverRaise ==
    (/\ call = "unique_extract" /\ Ended
     /\ fetched # <<>>
     /\ soup.initial = "ad"
     /\ soup.ad.priceValue.kind \in {"missing", "str"}
     /\ soup.ad.images \in {"missing", "present"}
     /\ soup.ad.user \in {"missing", "present"})
    => pc = "done"

\* C8: for a card whose text has two parts and whose date part names neither today
\* nor yesterday, a date part with fewer than three words or with a second word
\* that is no month abbreviation is emitted as it is.
C8_UnmatchedDateIsEmittedRaw ==
    (/\ call = "cards" /\ pc = "done"
     /\ Len(soup.cards) = 1
     /\ soup.cards[1].link.tag /\ soup.cards[1].link.has_href
     /\ soup.cards[1].locdate.tag /\ Len(soup.cards[1].locdate.parts) = 2)
    => LET date_part == soup.cards[1].locdate.parts[2]
           lowered == [i \in 1..Len(date_part) |-> Lower(date_part[i].a)]
           named == \E i \in 1..Len(lowered) : lowered[i] \in {"hoje", "ontem"}
           matches == Len(lowered) >= 3 /\ lowered[2] \in DOMAIN months IN
       (~named /\ ~matches) =>
          /\ Len(Result) = 1
          /\ Result[1].Datetime = [kind |-> "raw", text |-> date_part]

\* C9: the ID of an emitted card is what follows the last "-" of its link; for a
\* link without "-" it is "-".
C9_IdIsLastSegmentOrDash ==
    (/\ call = "cards" /\ pc = "done"
     /\ Len(soup.cards) = 1
     /\ soup.cards[1].link.tag /\ soup.cards[1].link.has_href)
    => LET link == soup.cards[1].link.href
           dashes == {i \in 1..Len(link) : link[i] = "-"} IN
       /\ Len(Result) = 1
       /\ Result[1].ID = IF dashes = {} THEN <<"-">>
                      ELSE SubSeq(link, 1 + CHOOSE i \in dashes : \A k \in dashes : i >= k,
                                  Len(link))

(***************************************************************************)
(* What the code does where C2, C3, C4, C8 and C9 fail: each statement     *)
(* below holds in every reachable state.                                   *)
(***************************************************************************)
\* the rule of C2 holds whenever number_of_pages did not return 0
TotalPagesRuleUnlessZero ==
    (call = "extract" /\ max_pages # PyInt(0)) => C2_TotalPagesRule

\* C3 holds whenever number_of_pages did not raise on page 1
MissingContainerEndsSearchUnlessRaised ==
    pc # "raised" => C3_MissingContainerEndsSearch

\* number_of_pages returns the ceiling for every integer but 0, negative ones too,
\* and raises for NaN and Infinity
CountPagesAsCoded ==
    (call = "number_of_pages" /\ Ended) =>
      LET block == soup.datalayer
          read == block.script = "ok" /\ block.comma <= 1 /\ block.shape = "total" IN
      /\ (read /\ block.total.t = "int" /\ block.total.v # 0) =>
            /\ pc = "done" /\ Result.t = "int"
            /\ PageSize * (Result.v - 1) < block.total.v
            /\ block.total.v <= PageSize * Result.v
      /\ (read /\ block.total.t \in {"nan", "inf"}) => pc = "raised"
      /\ ~(read /\ (block.total.t \in {"nan", "inf"}
                    \/ (block.total.t = "int" /\ block.total.v # 0))) =>
            pc = "done" /\ Result = None

\* a date part of three words or more is never emitted raw; an unknown month
\* becomes "??"; a date part of fewer than three words is emitted raw
DateAsCoded ==
    (/\ call = "cards" /\ pc = "done"
     /\ Len(soup.cards) = 1
     /\ soup.cards[1].link.tag /\ soup.cards[1].link.has_href
     /\ soup.cards[1].locdate.tag /\ Len(soup.cards[1].locdate.parts) = 2)
    => LET date_part == soup.cards[1].locdate.parts[2]
           lowered == [i \in 1..Len(date_part) |-> Lower(date_part[i].a)]
           named == \E i \in 1..Len(lowered) : lowered[i] \in {"hoje", "ontem"} IN
       ~named =>
          /\ Len(lowered) < 3 => Result[1].Datetime = [kind |-> "raw", text |-> date_part]
          /\ Len(lowered) >= 3 =>
               /\ Result[1].Datetime.kind = "parsed"
               /\ (lowered[2] \notin DOMAIN months <=> Result[1].Datetime.month = "??")

\* the ID of a link without "-" is the link itself
IdAsCoded ==
    (/\ call = "cards" /\ pc = "done"
     /\ Len(soup.cards) = 1
     /\ soup.cards[1].link.tag /\ soup.cards[1].link.has_href)
    => LET link == soup.cards[1].link.href
           dashes == {i \in 1..Len(link) : link[i] = "-"} IN
       Result[1].ID = IF dashes = {} THEN link
                   ELSE SubSeq(link, 1 + CHOOSE i \in dashes : \A k \in dashes : i >= k,
                               Len(link))

====
